---- MODULE Spec2Model ----
(***************************************************************************)
(* Model of sylphie_database's connection layer                            *)
(* (src/sylphie_database/src/connection/mod.rs): the BlockingWrapper       *)
(* bridge, DbOpsData and its transaction flags, DbConnection,              *)
(* DbTransaction, their destructors, the drop-time rollback worker and     *)
(* Database::connect over the connection pool.                             *)
(*                                                                         *)
(* An Option<T> is a sequence: <<>> is None, <<v>> is Some(v).  A          *)
(* BlockingWrapper<Connection> is the number of the Connection it holds,   *)
(* NoConn when its inner is None.                                          *)
(***************************************************************************)
EXTENDS Integers, Sequences, FiniteSets, TLC

\* Number of callers; each calls Database::connect at most once.
NHandles == 2
\* Rows one Connection may insert.
MaxWrites == 1
\* Streaming queries started, in one run.
MaxStreams == 1
\* Calls whose future is dropped while it awaits its worker, in one run.
MaxAbandon == 1
\* Statements the engine refuses (busy, constraint), in one run.
MaxRefuse == 1
\* Pool::builder().max_size(..): the source configures 15; the model runs a
\* pool of this size so that the limit is reached.
max_size == 2

Handles == 1..NHandles
\* ConnectionManager::connect is called at most once per Database::connect.
Phys == 1..NHandles
NoConn == 0

TransactionType == {"Deferred", "Immediate", "Exclusive"}

VARIABLES
    db,       \* the SQLite engine: per Connection its open transaction, rows
    pool,     \* the Pool: idle wrappers and the number of checkouts handed out
    hstate,   \* per caller: "none", "live" (holds a DbConnection), "dropped"
    connOps,  \* DbConnection.ops.0.inner : Option<DbOpsData>
    txLive,   \* per caller: "none", "active" (holds a DbTransaction), "ended"
    txOps,    \* DbTransaction.ops.0.inner : Option<DbOpsData>
    task,     \* the spawn_blocking task of a run_blocking call, if any
    rb,       \* the spawn_blocking task of rollback_in_drop, if any
    hist,     \* per caller: what has been observed (results, panics, ...)
    used,     \* abandoned calls, refused statements and streams so far
    stream,   \* per caller: the streaming query and the shared return cell
    ser,      \* a value on its way through a SerializationFormat
    gen,      \* a result set on its way through the streaming generator
    term,     \* the terminal read loop
    cmds      \* the CommandManager: commands to register, its set, a lookup

vars == <<db, pool, hstate, connOps, txLive, txOps, task, rb, hist, used,
          stream, ser, gen, term, cmds>>

----------------------------------------------------------------------------
(* The SQLite engine behind rusqlite::Connection.                          *)

\* Connection::execute of an INSERT: into the open transaction if there is
\* one, otherwise committed at once (autocommit).
SqlInsert(d, p) ==
    IF d.tx[p] # "none"
    THEN [d EXCEPT !.pending[p] = @ + 1]
    ELSE [d EXCEPT !.committed[p] = @ + 1]

\* Dropping a Connection closes it; SQLite discards its open transaction.
SqlClose(d, p) ==
    IF p = NoConn THEN d
    ELSE [d EXCEPT !.open = @ \ {p}, !.tx[p] = "none", !.pending[p] = 0]

RECURSIVE SqlCloseAll(_, _)
SqlCloseAll(d, ps) ==
    IF ps = {} THEN d
    ELSE LET p == CHOOSE q \in ps : TRUE
         IN  SqlCloseAll(SqlClose(d, p), ps \ {p})

BeginSql_deferred(t) == "BEGIN DEFERRED TRANSACTION;"
\* The statement begin_transaction builds for a TransactionType.
BeginSql(t) ==
    CASE t = "Exclusive" -> "BEGIN EXCLUSIVE TRANSACTION;"
      [] t = "Immediate" -> "BEGIN IMMEDIATE TRANSACTION;"
      [] OTHER           -> "BEGIN DEFERRED TRANSACTION;"

CommitSql == "COMMIT;"
RollbackSql == "ROLLBACK;"
RollbackInDropSql_commit == "COMMIT;"
\* The statement rollback_in_drop runs on its worker.
RollbackInDropSql == "ROLLBACK;"

\* Connection::execute_batch of one statement on Connection p.  `ok` is the
\* engine's answer where it may refuse (SQLITE_BUSY on BEGIN, a busy or
\* constraint failure on COMMIT); COMMIT and ROLLBACK fail when no
\* transaction is active, BEGIN fails inside a transaction.
SqlExecBatch(d, p, sql, ok) ==
    IF sql = CommitSql THEN
        LET d1 == [d EXCEPT !.ncommit[p] = @ + 1]
        IN  IF d.tx[p] = "none" \/ ~ok
            THEN [db |-> d1, res |-> "err"]
            ELSE [db |-> [d1 EXCEPT !.tx[p] = "none",
                                    !.committed[p] = @ + d.pending[p],
                                    !.pending[p] = 0],
                  res |-> "ok"]
    ELSE IF sql = RollbackSql THEN
        LET d1 == [d EXCEPT !.nrollback[p] = @ + 1]
        IN  IF d.tx[p] = "none"
            THEN [db |-> d1, res |-> "err"]
            ELSE [db |-> [d1 EXCEPT !.tx[p] = "none", !.pending[p] = 0],
                  res |-> "ok"]
    ELSE \* a BEGIN statement
        IF d.tx[p] # "none" \/ ~ok
        THEN [db |-> d, res |-> "err"]
        ELSE [db |-> [d EXCEPT !.tx[p] = "open",
                               !.ncommit[p] = 0, !.nrollback[p] = 0],
              res |-> "ok"]

----------------------------------------------------------------------------
(* BlockingWrapper and DbOpsData.                                          *)

take_rest_copy(w) == w
\* BlockingWrapper::take: the value moves out, the source is left None.
take_rest(w) == NoConn
take_value(w) == w

\* BlockingWrapper::get on the conn bridge.
get(w) == IF w = NoConn THEN "err" ELSE "ok"

run_blocking_poisoned_never(inner) == FALSE
\* run_blocking's first check: an empty bridge bails without dispatching.
run_blocking_poisoned(inner) == inner = <<>>

\* DbOpsData as Database::connect builds it around a checkout.
NewDbOpsData(w) ==
    [conn_handle |-> <<take_rest(w)>>, conn |-> take_value(w),
     is_begin_transaction |-> FALSE, is_begin_commit |-> FALSE,
     is_in_transaction |-> FALSE, return_cell |-> FALSE]

\* DbOpsData::execute_batch
execute_batch(o, d, sql, ok) ==
    IF get(o.conn) = "err" THEN [db |-> d, res |-> "err"]
    ELSE SqlExecBatch(d, o.conn, sql, ok)

\* DbOpsData::execute (an INSERT of one row)
execute(o, d) ==
    IF get(o.conn) = "err" THEN [o |-> o, db |-> d, res |-> "err"]
    ELSE [o |-> o, db |-> SqlInsert(d, o.conn), res |-> "ok"]

\* DbOpsData::begin_transaction; "panic" is the failed assert!.
begin_transaction(o, d, t, ok) ==
    IF o.is_in_transaction THEN [o |-> o, db |-> d, res |-> "panic"]
    ELSE LET o1 == [o EXCEPT !.is_begin_transaction = TRUE]
             r  == execute_batch(o1, d, BeginSql(t), ok)
         IN  IF r.res = "err" THEN [o |-> o1, db |-> r.db, res |-> "err"]
             ELSE [o |-> [o1 EXCEPT !.is_in_transaction = TRUE,
                                    !.is_begin_transaction = FALSE],
                   db |-> r.db, res |-> "ok"]

commit_transaction_norun(o, d, ok) ==
    IF ~o.is_in_transaction THEN [o |-> o, db |-> d, res |-> "panic"]
    ELSE [o |-> [o EXCEPT !.is_in_transaction = FALSE], db |-> d, res |-> "ok"]
\* DbOpsData::commit_transaction
commit_transaction(o, d, ok) ==
    IF ~o.is_in_transaction THEN [o |-> o, db |-> d, res |-> "panic"]
    ELSE LET o1 == [o EXCEPT !.is_begin_commit = TRUE]
             r  == execute_batch(o1, d, CommitSql, ok)
         IN  IF r.res = "err" THEN [o |-> o1, db |-> r.db, res |-> "err"]
             ELSE [o |-> [o1 EXCEPT !.is_in_transaction = FALSE,
                                    !.is_begin_commit = FALSE],
                   db |-> r.db, res |-> "ok"]

\* DbOpsData::rollback_transaction
rollback_transaction(o, d) ==
    IF ~o.is_in_transaction THEN [o |-> o, db |-> d, res |-> "panic"]
    ELSE LET o1 == [o EXCEPT !.is_begin_commit = TRUE]
             r  == execute_batch(o1, d, RollbackSql, TRUE)
         IN  IF r.res = "err" THEN [o |-> o1, db |-> r.db, res |-> "err"]
             ELSE [o |-> [o1 EXCEPT !.is_in_transaction = FALSE,
                                    !.is_begin_commit = FALSE],
                   db |-> r.db, res |-> "ok"]

----------------------------------------------------------------------------
(* Destructors.  A destructor's outcome is an effect: whether it panicked, *)
(* the rollback task it spawned, the checkout wrappers it released to the  *)
(* Pool, the Connections it closed, whether a DbOpsData was dropped with   *)
(* is_in_transaction set, and whether the dropped DbOpsData held a         *)
(* reference to the return cell.                                           *)

NoEffect ==
    [panic |-> FALSE, spawn |-> <<>>, release |-> <<>>, close |-> {},
     inTxn |-> FALSE, cell |-> FALSE]

rollback_in_drop_keephandle(o) ==
    IF o.conn_handle = <<>>
    THEN [o |-> o, panic |-> TRUE, spawn |-> <<>>]
    ELSE [o |-> [o EXCEPT !.conn = take_rest(o.conn)],
          panic |-> FALSE,
          spawn |-> <<[conn_handle |-> o.conn_handle[1],
                       conn |-> take_value(o.conn)]>>]

\* DbOpsData::rollback_in_drop: unwrap the checkout, take the connection and
\* spawn the ROLLBACK worker that owns both.
rollback_in_drop(o) ==
    IF o.conn_handle = <<>>
    THEN [o |-> o, panic |-> TRUE, spawn |-> <<>>]
    ELSE [o |-> [o EXCEPT !.conn_handle = <<>>, !.conn = take_rest(o.conn)],
          panic |-> FALSE,
          spawn |-> <<[conn_handle |-> o.conn_handle[1],
                       conn |-> take_value(o.conn)]>>]

\* impl Drop for DbOpsData, followed by the drop of its fields (conn_handle
\* first, then conn).
DbOpsData_drop(o) ==
    IF o.is_begin_commit \/ o.is_begin_transaction THEN
        IF o.conn_handle = <<>>
        THEN [NoEffect EXCEPT !.panic = TRUE, !.close = {o.conn} \ {NoConn},
                              !.inTxn = o.is_in_transaction,
                              !.cell = o.return_cell]
        ELSE [NoEffect EXCEPT
                !.release = <<take_rest(o.conn_handle[1])>>,
                !.close = {take_value(o.conn_handle[1]), o.conn} \ {NoConn},
                !.inTxn = o.is_in_transaction,
                !.cell = o.return_cell]
    ELSE IF o.is_in_transaction THEN
        LET r == rollback_in_drop(o)
        IN  [NoEffect EXCEPT !.panic = r.panic, !.spawn = r.spawn,
                             !.release = r.o.conn_handle,
                             !.close = {r.o.conn} \ {NoConn},
                             !.inTxn = TRUE,
                             !.cell = o.return_cell]
    ELSE IF o.conn_handle # <<>> THEN
        [NoEffect EXCEPT
            !.release = <<take_value(o.conn)>>,
            !.close = {o.conn_handle[1], take_rest(o.conn)} \ {NoConn},
            !.cell = o.return_cell]
    ELSE [NoEffect EXCEPT !.close = {o.conn} \ {NoConn},
                          !.cell = o.return_cell]

\* impl Drop for DbTransaction: self.ops.0.get().unwrap().rollback_in_drop(),
\* then the drop of the ops field.
DbTransaction_drop(bridge) ==
    IF bridge = <<>> THEN [NoEffect EXCEPT !.panic = TRUE]
    ELSE LET r == rollback_in_drop(bridge[1])
             e == DbOpsData_drop(r.o)
         IN  [e EXCEPT !.panic = r.panic \/ e.panic,
                       !.spawn = r.spawn \o e.spawn]

----------------------------------------------------------------------------
(* ConnectionManager and the Pool.                                         *)

ManagerConnect_same(n) == 1
\* ConnectionManager::connect: opens a new Connection (the n+1-th).
ManagerConnect(n) == n + 1

is_valid_always(w) == "ok"
\* ConnectionManager::is_valid: run_blocking(SELECT 1) on the wrapper.
is_valid(w) == IF w = NoConn THEN "err" ELSE "ok"

\* ConnectionManager::has_broken
has_broken(w) == w # NoConn

\* Pool::builder().max_size(m).build(manager)
PoolBuild(m) == [idle |-> <<>>, out |-> 0, max |-> m]

\* Pool::get drops idle entries that fail validation before reuse.
RECURSIVE PoolValidated(_)
PoolValidated(idle) ==
    IF idle = <<>> THEN <<>>
    ELSE IF is_valid(Head(idle)) = "ok" THEN idle
    ELSE PoolValidated(Tail(idle))

PoolCanGet_nolimit(pl) == TRUE
\* Pool::get does not suspend: an idle validated entry, or room to open.
PoolCanGet(pl) == PoolValidated(pl.idle) # <<>> \/ pl.out < pl.max

\* Pool::get when it does not suspend.
PoolGet(pl, nconn) ==
    LET v == PoolValidated(pl.idle)
    IN  IF v # <<>>
        THEN [pool |-> [pl EXCEPT !.idle = Tail(v), !.out = @ + 1],
              w |-> Head(v), opened |-> FALSE]
        ELSE [pool |-> [pl EXCEPT !.idle = <<>>, !.out = @ + 1],
              w |-> ManagerConnect(nconn), opened |-> TRUE]

PoolRelease_keepslot(pl, w) == pl
\* Drop of a PooledConnection: recycled unless has_broken.
PoolRelease(pl, w) ==
    IF has_broken(w) THEN [pl EXCEPT !.out = @ - 1]
    ELSE [pl EXCEPT !.out = @ - 1, !.idle = Append(@, w)]

\* The Connection a release discards.
PoolDiscards(w) == IF has_broken(w) THEN {w} \ {NoConn} ELSE {}

----------------------------------------------------------------------------
(* Applying a destructor's effect for caller h.                            *)

EffPool(pl, e) ==
    IF e.release = <<>> THEN pl ELSE PoolRelease(pl, e.release[1])

EffDb(d, e) ==
    SqlCloseAll(d, e.close \cup
        (IF e.release = <<>> THEN {} ELSE PoolDiscards(e.release[1])))

EffRb(r, h, e) == IF e.spawn = <<>> THEN r ELSE [r EXCEPT ![h] = <<e.spawn[1]>>]

EffHist(hr, e) ==
    [hr EXCEPT !.panicked = @ \/ e.panic,
               !.dropInTxn = @ \/ e.inTxn,
               !.released = @ \/ (e.release # <<>>),
               !.discarded = @ \/ (IF e.release = <<>> THEN FALSE
                                    ELSE PoolDiscards(e.release[1]) # {})]

\* The drop of a DbOpsData drops its reference to the return cell; the cell
\* and the wrapper in it go with the last reference (a live generator holds
\* one).
EffStream(s, e) ==
    IF e.cell /\ s.state # "live" THEN [s EXCEPT !.cell = <<>>] ELSE s

EffCellClose(s, e) ==
    IF e.cell /\ s.state # "live"
    THEN {s.cell[i] : i \in DOMAIN s.cell} \ {NoConn}
    ELSE {}

HistInit ==
    [conn |-> NoConn, snap |-> 0, txWrites |-> 0, txEnd |-> "none",
     panicked |-> FALSE, lastResult |-> "none", ran |-> TRUE,
     dropInTxn |-> FALSE, released |-> FALSE, rbDone |-> FALSE,
     abandonedConn |-> FALSE, abandonedTx |-> FALSE, reported |-> 0,
     rbFailed |-> 0, discarded |-> FALSE]

StreamInit ==
    [state |-> "none", gen |-> NoConn, cell |-> <<>>, K |-> 0, yielded |-> 0]

\* No value is being serialized.
SerIdle == [phase |-> "idle"]

\* No result set is being streamed; no terminal is running.
GenIdle == [phase |-> "idle"]
TermIdle == [status |-> "idle"]
CmdsIdle == [phase |-> "idle"]

\* The connection layer after DatabaseModule::new.
InitConn ==
    /\ db = [tx |-> [p \in Phys |-> "none"],
             pending |-> [p \in Phys |-> 0],
             committed |-> [p \in Phys |-> 0],
             ncommit |-> [p \in Phys |-> 0],
             nrollback |-> [p \in Phys |-> 0],
             open |-> {}, nconn |-> 0]
    /\ \E m \in 1..max_size : pool = PoolBuild(m)
    /\ hstate = [h \in Handles |-> "none"]
    /\ connOps = [h \in Handles |-> <<>>]
    /\ txLive = [h \in Handles |-> "none"]
    /\ txOps = [h \in Handles |-> <<>>]
    /\ task = [h \in Handles |-> <<>>]
    /\ rb = [h \in Handles |-> <<>>]
    /\ hist = [h \in Handles |-> HistInit]
    /\ used = [abandon |-> 0, refuse |-> 0, stream |-> 0]
    /\ stream = [h \in Handles |-> StreamInit]

Init ==
    /\ InitConn /\ ser = SerIdle /\ gen = GenIdle /\ term = TermIdle
    /\ cmds = CmdsIdle

\* The DbOpsData values caller h's handles and tasks hold.
DataOf(h) ==
    connOps[h] \o txOps[h] \o (IF task[h] # <<>> THEN task[h][1].data ELSE <<>>)

\* The caller is suspended in a run_blocking await.
Busy(h) == task[h] # <<>> /\ ~task[h][1].orphan

\* The model stops inserting once a Connection has written MaxWrites rows.
Writable(bridge) ==
    IF bridge = <<>> THEN TRUE
    ELSE IF bridge[1].conn = NoConn THEN TRUE
    ELSE db.pending[bridge[1].conn] + db.committed[bridge[1].conn] < MaxWrites

\* Database::connect
Connect(h) ==
    /\ hstate[h] = "none"
    /\ PoolCanGet(pool)
    /\ LET g == PoolGet(pool, db.nconn)
       IN  /\ pool' = g.pool
           /\ db' = IF g.opened
                    THEN [db EXCEPT !.nconn = @ + 1, !.open = @ \cup {g.w}]
                    ELSE db
           /\ connOps' = [connOps EXCEPT ![h] = <<NewDbOpsData(g.w)>>]
           /\ hist' = [hist EXCEPT ![h].conn = g.w]
    /\ hstate' = [hstate EXCEPT ![h] = "live"]
    /\ UNCHANGED <<txLive, txOps, task, rb, used, stream, ser, gen, term, cmds>>

\* BlockingWrapper::run_blocking up to its await, on the bridge `tgt` of h:
\* bail if the bridge is empty, else take the value and spawn the task.
Dispatch(h, tgt, op, kind) ==
    LET bridge == IF tgt = "conn" THEN connOps[h] ELSE txOps[h]
    IN  IF run_blocking_poisoned(bridge)
        THEN /\ hist' = [hist EXCEPT ![h].lastResult = "poisoned"]
             /\ UNCHANGED <<db, pool, hstate, connOps, txLive, txOps, task, rb,
                            used, stream, ser, gen, term, cmds>>
        ELSE /\ task[h] = <<>>
             /\ task' = [task EXCEPT ![h] =
                    <<[tgt |-> tgt, op |-> op, kind |-> kind,
                       data |-> bridge, orphan |-> FALSE]>>]
             /\ connOps' = IF tgt = "conn"
                           THEN [connOps EXCEPT ![h] = <<>>] ELSE connOps
             /\ txOps' = IF tgt = "tx"
                         THEN [txOps EXCEPT ![h] = <<>>] ELSE txOps
             /\ hist' = [hist EXCEPT ![h].ran = FALSE]
             /\ UNCHANGED <<db, pool, hstate, txLive, rb, used, stream, ser, gen, term, cmds>>

\* DbOps::execute on a DbConnection
ExecuteConn(h) ==
    /\ hstate[h] = "live" /\ txLive[h] # "active" /\ ~Busy(h)
    /\ Writable(connOps[h])
    /\ Dispatch(h, "conn", "execute", "none")

\* DbConnection::transaction_with_type up to its await
BeginTx(h, t) ==
    /\ hstate[h] = "live" /\ txLive[h] # "active" /\ ~Busy(h)
    /\ Dispatch(h, "conn", "begin", t)

\* DbOps::execute on a DbTransaction
ExecuteTx(h) ==
    /\ txLive[h] = "active" /\ ~Busy(h)
    /\ Writable(txOps[h])
    /\ Dispatch(h, "tx", "execute", "none")

ApplyEffect(h, e, d, hr) ==
    /\ db' = SqlCloseAll(EffDb(d, e), EffCellClose(stream[h], e))
    /\ stream' = [stream EXCEPT ![h] = EffStream(@, e)]
    /\ pool' = EffPool(pool, e)
    /\ rb' = EffRb(rb, h, e)
    /\ hist' = [hist EXCEPT ![h] = EffHist(hr, e)]

EndName(op, how) ==
    IF op = "commit"
    THEN CASE how = "ok" -> "commit_ok"
           [] how = "abandoned" -> "commit_abandoned"
           [] how = "poisoned" -> "commit_poisoned"
           [] OTHER -> "commit_err"
    ELSE CASE how = "ok" -> "rollback_ok"
           [] how = "abandoned" -> "rollback_abandoned"
           [] how = "poisoned" -> "rollback_poisoned"
           [] OTHER -> "rollback_err"

\* DbTransaction::commit / DbTransaction::rollback up to the await.  Both
\* consume self: when run_blocking bails at once, self is dropped at once.
EndTx(h, op) ==
    /\ txLive[h] = "active" /\ ~Busy(h)
    /\ IF run_blocking_poisoned(txOps[h])
       THEN /\ txLive' = [txLive EXCEPT ![h] = "ended"]
            /\ ApplyEffect(h, DbTransaction_drop(txOps[h]), db,
                   [hist[h] EXCEPT !.lastResult = "poisoned",
                                   !.txEnd = EndName(op, "poisoned")])
            /\ UNCHANGED <<hstate, connOps, txOps, task, used, ser, gen, term, cmds>>
       ELSE Dispatch(h, "tx", op, "none")

CommitTx(h) == EndTx(h, "commit")

RollbackTx(h) == EndTx(h, "rollback")

\* The engine may refuse (ok = FALSE) a BEGIN or a COMMIT.
Refusal(t, ok) ==
    IF ok THEN UNCHANGED used
    ELSE /\ t.op \in {"begin", "commit"}
         /\ used.refuse < MaxRefuse
         /\ used' = [used EXCEPT !.refuse = @ + 1]

\* The closure run_blocking spawned, on its worker: func(inner.as_mut().unwrap())
RunFunc(t, d, ok) ==
    IF t.data = <<>> THEN [o |-> <<>>, db |-> d, res |-> "panic"]
    ELSE LET o == t.data[1]
             r == CASE t.op = "execute" -> execute(o, d)
                    [] t.op = "begin" -> begin_transaction(o, d, t.kind, ok)
                    [] t.op = "commit" -> commit_transaction(o, d, ok)
                    [] OTHER -> rollback_transaction(o, d)
         IN  [o |-> <<r.o>>, db |-> r.db, res |-> r.res]

run_blocking_return_errpoison(r) == IF r.res = "err" THEN <<>> ELSE r.o
\* run_blocking after its await: self.inner = inner, for an Ok and for an Err
\* result alike.
run_blocking_return(r) == r.o

\* The worker runs the operation and the awaiting caller resumes:
\* run_blocking puts the value back and returns the result; then the rest
\* of the calling method runs (transaction_with_type takes the ops into a
\* new DbTransaction; commit and rollback drop self).  A panic of the
\* operation is a JoinError: the value is dropped on the worker.
WorkerRun(h, ok) ==
    /\ Busy(h)
    /\ Refusal(task[h][1], ok)
    /\ LET t == task[h][1]
           r == RunFunc(t, db, ok)
           panicked == r.res = "panic"
           ends == t.op \in {"commit", "rollback"}
           began == t.op = "begin" /\ r.res = "ok"
           e == IF panicked
                THEN LET e0 == IF r.o = <<>> THEN NoEffect
                               ELSE DbOpsData_drop(r.o[1])
                     IN  IF ends THEN [e0 EXCEPT !.panic = TRUE] ELSE e0
                ELSE IF ends THEN DbTransaction_drop(run_blocking_return(r))
                ELSE NoEffect
           hr == [hist[h] EXCEPT
                    !.ran = TRUE,
                    !.lastResult = IF r.res = "ok" THEN "ok" ELSE "err",
                    !.snap = IF began THEN r.db.committed[r.o[1].conn] ELSE @,
                    !.txWrites = IF t.tgt = "tx" /\ t.op = "execute" /\ r.res = "ok"
                                 THEN @ + 1 ELSE @,
                    !.txEnd = IF ends THEN EndName(t.op, r.res) ELSE @]
       IN  /\ task' = [task EXCEPT ![h] = <<>>]
           /\ connOps' = IF t.tgt = "conn" /\ ~panicked /\ ~began
                         THEN [connOps EXCEPT ![h] = run_blocking_return(r)]
                         ELSE connOps
           /\ txOps' = IF began \/ (t.tgt = "tx" /\ t.op = "execute" /\ ~panicked)
                       THEN [txOps EXCEPT ![h] = run_blocking_return(r)]
                       ELSE txOps
           /\ txLive' = IF began THEN [txLive EXCEPT ![h] = "active"]
                        ELSE IF ends THEN [txLive EXCEPT ![h] = "ended"]
                        ELSE txLive
           /\ ApplyEffect(h, e, r.db, hr)
    /\ UNCHANGED <<hstate, ser, gen, term, cmds>>

Abandoned_retract(t) == <<>>
\* What becomes of the spawned task when its JoinHandle is dropped: it is
\* detached and still runs.
Abandoned(t) == <<[t EXCEPT !.orphan = TRUE]>>

\* The caller drops the future of a call while it awaits the worker.  The
\* bridge stays empty.  The future of commit or rollback owns the
\* DbTransaction, which is dropped with it.
Abandon(h) ==
    /\ Busy(h)
    /\ used.abandon < MaxAbandon
    /\ used' = [used EXCEPT !.abandon = @ + 1]
    /\ LET t == task[h][1]
           ends == t.op \in {"commit", "rollback"}
           e == IF ends THEN DbTransaction_drop(txOps[h]) ELSE NoEffect
           hr == [hist[h] EXCEPT
                    !.lastResult = "abandoned",
                    !.abandonedConn = @ \/ t.tgt = "conn",
                    !.abandonedTx = @ \/ t.tgt = "tx",
                    !.txEnd = IF ends THEN EndName(t.op, "abandoned") ELSE @]
       IN  /\ task' = [task EXCEPT ![h] = Abandoned(t)]
           /\ txLive' = IF ends THEN [txLive EXCEPT ![h] = "ended"] ELSE txLive
           /\ ApplyEffect(h, e, db, hr)
    /\ UNCHANGED <<hstate, connOps, txOps, ser, gen, term, cmds>>

\* The worker runs the operation of an abandoned call; its output, the
\* DbOpsData with it, is dropped on the worker.
OrphanRun(h, ok) ==
    /\ task[h] # <<>> /\ task[h][1].orphan
    /\ Refusal(task[h][1], ok)
    /\ LET t == task[h][1]
           r == RunFunc(t, db, ok)
           e == IF r.o = <<>> THEN NoEffect ELSE DbOpsData_drop(r.o[1])
           hr == [hist[h] EXCEPT
                    !.ran = TRUE,
                    !.txWrites = IF t.tgt = "tx" /\ t.op = "execute" /\ r.res = "ok"
                                 THEN @ + 1 ELSE @]
       IN  /\ task' = [task EXCEPT ![h] = <<>>]
           /\ ApplyEffect(h, e, r.db, hr)
    /\ UNCHANGED <<hstate, connOps, txLive, txOps, ser, gen, term, cmds>>

\* An Active DbTransaction goes out of scope.
DropTx(h) ==
    /\ txLive[h] = "active" /\ ~Busy(h)
    /\ txLive' = [txLive EXCEPT ![h] = "ended"]
    /\ txOps' = [txOps EXCEPT ![h] = <<>>]
    /\ ApplyEffect(h, DbTransaction_drop(txOps[h]), db,
           [hist[h] EXCEPT !.txEnd = IF txOps[h] = <<>> THEN "drop_poisoned"
                                     ELSE "drop"])
    /\ UNCHANGED <<hstate, connOps, task, used, ser, gen, term, cmds>>

\* A DbConnection goes out of scope.
DropConn(h) ==
    /\ hstate[h] = "live" /\ txLive[h] # "active" /\ ~Busy(h)
    /\ hstate' = [hstate EXCEPT ![h] = "dropped"]
    /\ connOps' = [connOps EXCEPT ![h] = <<>>]
    /\ ApplyEffect(h, IF connOps[h] = <<>> THEN NoEffect
                      ELSE DbOpsData_drop(connOps[h][1]), db, hist[h])
    /\ UNCHANGED <<txLive, txOps, task, used, ser, gen, term, cmds>>

rollback_worker_reports_never(res) == 0
\* The closure's match: Err(e) => Error::from(e).report_error(), once; an
\* Ok result reports nothing.
rollback_worker_reports(res) == IF res = "err" THEN 1 ELSE 0

rollback_worker_wrapper_always(t, res) == t.conn
\* What the checkout's wrapper holds when the closure drops it: Ok(_) =>
\* *conn_handle = conn; on Err it keeps what it held.
rollback_worker_wrapper(t, res) ==
    IF res = "ok" THEN t.conn ELSE t.conn_handle

\* The closure rollback_in_drop spawned: on Ok the connection goes back
\* into the checkout, on Err the error is reported; the checkout is dropped;
\* a connection still owned by the closure is dropped after it.
RollbackWorker(h) ==
    /\ rb[h] # <<>>
    /\ LET t == rb[h][1]
           r == IF t.conn = NoConn THEN [db |-> db, res |-> "panic"]
                ELSE SqlExecBatch(db, t.conn, RollbackInDropSql, TRUE)
           w == rollback_worker_wrapper(t, r.res)
           closed == IF r.res = "ok" THEN {t.conn_handle} \ {NoConn}
                     ELSE {t.conn} \ {NoConn}
       IN  /\ db' = SqlCloseAll(r.db, closed \cup PoolDiscards(w))
           /\ pool' = PoolRelease(pool, w)
           /\ hist' = [hist EXCEPT ![h].rbDone = TRUE, ![h].released = TRUE,
                          ![h].reported = @ + rollback_worker_reports(r.res),
                          ![h].rbFailed = IF r.res = "err" THEN @ + 1 ELSE @,
                          ![h].discarded = @ \/ PoolDiscards(w) # {}]
    /\ rb' = [rb EXCEPT ![h] = <<>>]
    /\ UNCHANGED <<hstate, connOps, txLive, txOps, task, used, stream, ser, gen, term, cmds>>

\* The Pool closes an idle entry whose idle timeout elapsed.
PoolIdleTimeout ==
    /\ pool.idle # <<>>
    /\ pool' = [pool EXCEPT !.idle = Tail(@)]
    /\ db' = SqlClose(db, Head(pool.idle))
    /\ UNCHANGED <<hstate, connOps, txLive, txOps, task, rb, hist, used, stream, ser, gen, term, cmds>>

Next ==
    \/ \E h \in Handles : Connect(h)
    \/ \E h \in Handles : ExecuteConn(h)
    \/ \E h \in Handles, t \in TransactionType : BeginTx(h, t)
    \/ \E h \in Handles : ExecuteTx(h)
    \/ \E h \in Handles : CommitTx(h)
    \/ \E h \in Handles : RollbackTx(h)
    \/ \E h \in Handles, ok \in BOOLEAN : WorkerRun(h, ok)
    \/ \E h \in Handles : Abandon(h)
    \/ \E h \in Handles, ok \in BOOLEAN : OrphanRun(h, ok)
    \/ \E h \in Handles : DropTx(h)
    \/ \E h \in Handles : DropConn(h)
    \/ \E h \in Handles : RollbackWorker(h)
    \/ PoolIdleTimeout

Spec == Init /\ [][Next]_vars

----------------------------------------------------------------------------
(* Streaming queries: DbOpsData::do_query_stream.  Nothing in the crate    *)
(* calls it yet; here it is called on the DbOpsData in the bridge of a     *)
(* DbConnection or DbTransaction with no call in flight.                   *)

\* The callers that run streaming queries (callers are interchangeable).
StreamHandles == {1}

\* The rows a query on Connection p sees.
Rows(d, p) == IF p = NoConn THEN 0 ELSE d.committed[p] + d.pending[p]

\* do_query_stream up to the construction of the generator: the return
\* cell is created if absent, and the connection moves from DbOpsData into
\* the generator's QueryGeneratorData.
do_query_stream(o) ==
    [o |-> [o EXCEPT !.return_cell = TRUE, !.conn = take_rest(o.conn)],
     gen |-> take_value(o.conn)]

\* The items the stream yields over a result set of K rows: the body of
\* async_stream is empty, the generator it is given is never resumed.
async_stream_items(K) == 0

\* impl Drop for QueryGeneratorData: the connection moves into the return
\* cell, whose previous content is dropped; when the DbOpsData is gone the
\* generator holds the last reference and the cell is dropped with it.
QueryGeneratorData_drop(s, opsAlive) ==
    [cell |-> IF opsAlive THEN <<take_value(s.gen)>> ELSE <<>>,
     close |-> ({s.cell[i] : i \in DOMAIN s.cell}
                \cup (IF opsAlive THEN {} ELSE {s.gen})) \ {NoConn}]

QueryStream(h, tgt) ==
    /\ used.stream < MaxStreams
    /\ ~Busy(h) /\ stream[h].state # "live"
    /\ IF tgt = "conn" THEN hstate[h] = "live" /\ txLive[h] # "active"
                       ELSE txLive[h] = "active"
    /\ LET bridge == IF tgt = "conn" THEN connOps[h] ELSE txOps[h]
       IN  /\ bridge # <<>>
           /\ LET r == do_query_stream(bridge[1])
              IN  /\ connOps' = IF tgt = "conn"
                                THEN [connOps EXCEPT ![h] = <<r.o>>] ELSE connOps
                  /\ txOps' = IF tgt = "tx"
                              THEN [txOps EXCEPT ![h] = <<r.o>>] ELSE txOps
                  /\ stream' = [stream EXCEPT ![h] =
                         [state |-> "live", gen |-> r.gen, cell |-> @.cell,
                          K |-> Rows(db, r.gen), yielded |-> 0]]
    /\ used' = [used EXCEPT !.stream = @ + 1]
    /\ UNCHANGED <<db, pool, hstate, txLive, task, rb, hist, ser, gen, term, cmds>>

\* The stream ends: the generator is dropped.
StreamEnd(h, how, items) ==
    LET g == QueryGeneratorData_drop(stream[h],
                 \E i \in DOMAIN DataOf(h) : DataOf(h)[i].return_cell)
    IN  /\ stream' = [stream EXCEPT ![h] =
               [@ EXCEPT !.state = how, !.gen = take_rest(@), !.cell = g.cell,
                         !.yielded = items]]
        /\ db' = SqlCloseAll(db, g.close)
        /\ UNCHANGED <<pool, hstate, connOps, txLive, txOps, task, rb, hist,
                       used, ser, gen, term, cmds>>

\* The caller polls the stream to its end.
StreamPull(h) ==
    /\ stream[h].state = "live"
    /\ StreamEnd(h, "exhausted", async_stream_items(stream[h].K))

\* The caller drops the stream before it has ended.
StreamDrop(h) ==
    /\ stream[h].state = "live"
    /\ StreamEnd(h, "abandoned", stream[h].yielded)

NextStream ==
    \/ Next
    \/ \E h \in StreamHandles, tgt \in {"conn", "tx"} : QueryStream(h, tgt)
    \/ \E h \in Handles : StreamPull(h)
    \/ \E h \in Handles : StreamDrop(h)

\* The streaming runs use the largest pool.
InitStream == Init /\ pool.max = max_size

SpecStream == InitStream /\ [][NextStream]_vars

\* Database::connect is an await on Pool::get: a request the Pool can
\* satisfy is not left waiting forever.
SpecLive == Spec /\ \A h \in Handles : WF_vars(Connect(h))

----------------------------------------------------------------------------
(* The destructor of an Active DbTransaction seen step by step: the worker *)
(* that rollback_in_drop spawns runs on another thread and may finish      *)
(* before the destructor of the ops field starts.                          *)

\* impl Drop for DbTransaction up to the return of rollback_in_drop.
DropTxSpawn(h) ==
    /\ txLive[h] = "active" /\ ~Busy(h) /\ txOps[h] # <<>>
    /\ LET r == rollback_in_drop(txOps[h][1])
       IN  /\ ~r.panic
           /\ txOps' = [txOps EXCEPT ![h] = <<r.o>>]
           /\ rb' = [rb EXCEPT ![h] = r.spawn]
    /\ txLive' = [txLive EXCEPT ![h] = "dropping"]
    /\ hist' = [hist EXCEPT ![h].txEnd = "drop"]
    /\ UNCHANGED <<db, pool, hstate, connOps, task, used, stream, ser, gen, term, cmds>>

\* The drop of the ops field that follows: impl Drop for DbOpsData.
DropTxFields(h) ==
    /\ txLive[h] = "dropping"
    /\ txLive' = [txLive EXCEPT ![h] = "ended"]
    /\ txOps' = [txOps EXCEPT ![h] = <<>>]
    /\ LET e == DbOpsData_drop(txOps[h][1])
       IN  /\ db' = SqlCloseAll(EffDb(db, e), EffCellClose(stream[h], e))
           /\ stream' = [stream EXCEPT ![h] = EffStream(@, e)]
           /\ pool' = EffPool(pool, e)
           /\ hist' = [hist EXCEPT ![h] = EffHist(@, e)]
    /\ UNCHANGED <<hstate, connOps, task, rb, used, ser, gen, term, cmds>>

\* A caller inside the destructor does nothing else.
InDestructorWaits ==
    \A h \in Handles :
        txLive[h] = "dropping"
            => /\ hstate'[h] = hstate[h] /\ connOps'[h] = connOps[h]
               /\ txOps'[h] = txOps[h] /\ txLive'[h] = txLive[h]
               /\ task'[h] = task[h]
               /\ hist'[h].lastResult = hist[h].lastResult

NextFine ==
    \/ Next /\ InDestructorWaits
    \/ \E h \in Handles : DropTxSpawn(h)
    \/ \E h \in Handles : DropTxFields(h)

SpecFine == Init /\ [][NextFine]_vars

----------------------------------------------------------------------------
(* Serialization: src/sylphie_database/src/serializable.rs.  A byte buffer *)
(* is a sequence of bytes, a string a sequence of Unicode scalar values,   *)
(* an integer of width w the sequence of its w bytes in memory (two's      *)
(* complement, least significant first).                                   *)

Byte == 256

\* The little-endian bytes of a small non-negative number.
RECURSIVE LE(_, _)
LE(n, w) == IF w = 0 THEN <<>> ELSE <<n % Byte>> \o LE(n \div Byte, w - 1)

Ones(w) == [i \in 1..w |-> Byte - 1]
Zeros(w) == [i \in 1..w |-> 0]

\* The types of basic_defs! and SimpleSerialize, with their descriptor; and
\* one user type that declares a migration from its version 0, which stored
\* a u16 as its two bytes.
SerTypes ==
    [ String        |-> [id |-> "std::string::String", version |-> 0,
                         format |-> "Direct", kind |-> "str", width |-> 0],
      StringWrapper |-> [id |-> "std::string::String", version |-> 0,
                         format |-> "Direct", kind |-> "str", width |-> 0],
      VecU8         |-> [id |-> "std::vec::Vec<u8>", version |-> 0,
                         format |-> "Direct", kind |-> "bytes", width |-> 0],
      ByteBuf       |-> [id |-> "std::vec::Vec<u8>", version |-> 0,
                         format |-> "Direct", kind |-> "bytes", width |-> 0],
      u8            |-> [id |-> "u8", version |-> 0,
                         format |-> "Bincode", kind |-> "uint", width |-> 1],
      u16           |-> [id |-> "uvarint", version |-> 0,
                         format |-> "Bincode", kind |-> "uint", width |-> 2],
      u32           |-> [id |-> "uvarint", version |-> 0,
                         format |-> "Bincode", kind |-> "uint", width |-> 4],
      u64           |-> [id |-> "uvarint", version |-> 0,
                         format |-> "Bincode", kind |-> "uint", width |-> 8],
      i8            |-> [id |-> "i8", version |-> 0,
                         format |-> "Bincode", kind |-> "int", width |-> 1],
      i16           |-> [id |-> "ivarint", version |-> 0,
                         format |-> "Bincode", kind |-> "int", width |-> 2],
      i32           |-> [id |-> "ivarint", version |-> 0,
                         format |-> "Bincode", kind |-> "int", width |-> 4],
      i64           |-> [id |-> "ivarint", version |-> 0,
                         format |-> "Bincode", kind |-> "int", width |-> 8],
      SimpleU32     |-> [id |-> "simple_serialize", version |-> 0,
                         format |-> "Bincode", kind |-> "uint", width |-> 4],
      UserV1        |-> [id |-> "user", version |-> 1,
                         format |-> "Bincode", kind |-> "uint", width |-> 2] ]

SerTypeNames == DOMAIN SerTypes

\* Representative values.
BytesValues == { <<>>, <<0>>, <<255>>, <<1, 2>>, <<195, 40>>, <<104, 105>> }
StrValues == { <<>>, <<97>>, <<233>>, <<8364>>, <<128512>>, <<97, 233, 8364>>,
               <<0>>, <<127, 128>>, <<2047, 2048>>, <<65535, 65536>> }
UintValues(w) ==
    { v \in { LE(0, w), LE(1, w), LE(250, w), LE(251, w), LE(255, w),
              LE(256, w), LE(65535, w), LE(65536, w), LE(16777216, w),
              <<255, 255, 255, 255>> \o Zeros(w - 4),
              <<0, 0, 0, 0, 1>> \o Zeros(w - 5),
              Ones(w) } : Len(v) = w }
IntValues(w) ==
    { LE(0, w), LE(1, w), LE(125, w), LE(126, w), LE(127, w),
      Ones(w),                                   \* -1
      <<130>> \o Ones(w - 1),                    \* -126
      <<129>> \o Ones(w - 1),                    \* -127
      Zeros(w - 1) \o <<128>>,                   \* the minimum
      Ones(w - 1) \o <<127>> }                   \* the maximum

ValuesOf(ty) ==
    LET d == SerTypes[ty]
    IN  CASE d.kind = "str" -> StrValues
          [] d.kind = "bytes" -> BytesValues
          [] d.kind = "uint" -> UintValues(d.width)
          [] OTHER -> IntValues(d.width)

\* String::into_bytes: the UTF-8 encoding of the scalar values.
Utf8Char(c) ==
    IF c < 128 THEN <<c>>
    ELSE IF c < 2048 THEN <<192 + (c \div 64), 128 + (c % 64)>>
    ELSE IF c < 65536
         THEN <<224 + (c \div 4096), 128 + ((c \div 64) % 64), 128 + (c % 64)>>
    ELSE <<240 + (c \div 262144), 128 + ((c \div 4096) % 64),
           128 + ((c \div 64) % 64), 128 + (c % 64)>>

RECURSIVE into_bytes(_)
into_bytes(str) ==
    IF str = <<>> THEN <<>> ELSE Utf8Char(Head(str)) \o into_bytes(Tail(str))

IsCont(b) == b >= 128 /\ b < 192

\* String::from_utf8: decodes, or fails on a malformed, overlong or
\* surrogate sequence.
RECURSIVE from_utf8(_)
from_utf8(bs) ==
    IF bs = <<>> THEN [ok |-> TRUE, val |-> <<>>]
    ELSE
      LET b == bs[1]
          n == IF b < 128 THEN 1 ELSE IF b < 192 THEN 0 ELSE IF b < 224 THEN 2
               ELSE IF b < 240 THEN 3 ELSE IF b < 248 THEN 4 ELSE 0
      IN  IF n = 0 \/ Len(bs) < n THEN [ok |-> FALSE, val |-> <<>>]
          ELSE IF \E i \in 2..n : ~IsCont(bs[i]) THEN [ok |-> FALSE, val |-> <<>>]
          ELSE
            LET c == CASE n = 1 -> b
                       [] n = 2 -> (b - 192) * 64 + (bs[2] - 128)
                       [] n = 3 -> (b - 224) * 4096 + (bs[2] - 128) * 64
                                   + (bs[3] - 128)
                       [] OTHER -> (b - 240) * 262144 + (bs[2] - 128) * 4096
                                   + (bs[3] - 128) * 64 + (bs[4] - 128)
                low == CASE n = 1 -> 0 [] n = 2 -> 128 [] n = 3 -> 2048
                         [] OTHER -> 65536
                rest == from_utf8(SubSeq(bs, n + 1, Len(bs)))
            IN  IF c < low \/ c > 1114111 \/ (c >= 55296 /\ c <= 57343)
                   \/ ~rest.ok
                THEN [ok |-> FALSE, val |-> <<>>]
                ELSE [ok |-> TRUE, val |-> <<c>> \o rest.val]

\* Arithmetic on little-endian byte sequences.
Shl1(bs, cin) ==
    [i \in 1..Len(bs) |->
        ((bs[i] * 2) % Byte) + (IF i > 1 THEN bs[i - 1] \div 128 ELSE cin)]
Shr1(bs) ==
    [i \in 1..Len(bs) |->
        (bs[i] \div 2) + (IF i < Len(bs) THEN (bs[i + 1] % 2) * 128 ELSE 0)]
Not(bs) == [i \in 1..Len(bs) |-> Byte - 1 - bs[i]]
IsNeg(bs) == bs[Len(bs)] >= 128
ZeroExt(bs, w) == bs \o Zeros(w - Len(bs))
SignExt(bs, w) == bs \o (IF IsNeg(bs) THEN Ones(w - Len(bs)) ELSE Zeros(w - Len(bs)))
FitsU(bs, w) == \A i \in (w + 1)..Len(bs) : bs[i] = 0
FitsI(bs, w) == SignExt(SubSeq(bs, 1, w), Len(bs)) = bs

zigzag_encode_plain(n) == Shl1(n, 0)
\* bincode's zig-zag: non-negative n to 2n, negative n to 2(!n) + 1, as u64.
zigzag_encode(n) == IF IsNeg(n) THEN Shl1(Not(n), 1) ELSE Shl1(n, 0)
zigzag_decode(u) == IF u[1] % 2 = 0 THEN Shr1(u) ELSE Not(Shr1(u))

\* bincode's varint of a u64: one byte below 251, else a marker byte and
\* the value as u16, u32 or u64, little-endian.
varint_encode(u) ==
    IF FitsU(u, 1) /\ u[1] < 251 THEN <<u[1]>>
    ELSE IF FitsU(u, 2) THEN <<251>> \o SubSeq(u, 1, 2)
    ELSE IF FitsU(u, 4) THEN <<252>> \o SubSeq(u, 1, 4)
    ELSE <<253>> \o u

varint_decode(bs) ==
    IF bs = <<>> THEN [ok |-> FALSE, val |-> <<>>]
    ELSE LET m == bs[1]
             w == CASE m < 251 -> 0 [] m = 251 -> 2 [] m = 252 -> 4
                    [] m = 253 -> 8 [] OTHER -> 16
         IN  IF w = 16 \/ Len(bs) # w + 1 THEN [ok |-> FALSE, val |-> <<>>]
             ELSE IF w = 0 THEN [ok |-> TRUE, val |-> ZeroExt(<<m>>, 8)]
             ELSE [ok |-> TRUE, val |-> ZeroExt(SubSeq(bs, 2, w + 1), 8)]

\* BincodeFormat::serialize (DefaultOptions with varint encoding): 8-bit
\* integers are written as their byte, wider ones as varints, signed ones
\* zig-zag encoded first.
BincodeSerialize(d, v) ==
    IF d.width = 1 THEN v
    ELSE IF d.kind = "uint" THEN varint_encode(ZeroExt(v, 8))
    ELSE varint_encode(zigzag_encode(SignExt(v, 8)))

\* BincodeFormat::deserialize: trailing bytes and values out of the
\* type's range are errors.
BincodeDeserialize(d, bs) ==
    IF d.width = 1
    THEN IF Len(bs) = 1 THEN [ok |-> TRUE, val |-> bs]
         ELSE [ok |-> FALSE, val |-> <<>>]
    ELSE LET r == varint_decode(bs)
         IN  IF ~r.ok THEN r
             ELSE IF d.kind = "uint"
                  THEN IF FitsU(r.val, d.width)
                       THEN [ok |-> TRUE, val |-> SubSeq(r.val, 1, d.width)]
                       ELSE [ok |-> FALSE, val |-> <<>>]
             ELSE LET n == zigzag_decode(r.val)
                  IN  IF FitsI(n, d.width)
                      THEN [ok |-> TRUE, val |-> SubSeq(n, 1, d.width)]
                      ELSE [ok |-> FALSE, val |-> <<>>]

\* DirectFormats::serialize
DirectSerialize(d, v) == IF d.kind = "str" THEN into_bytes(v) ELSE v

\* DirectFormats::deserialize
DirectDeserialize(d, bs) ==
    IF d.kind = "str" THEN from_utf8(bs) ELSE [ok |-> TRUE, val |-> bs]

\* <T::Format as SerializationFormat<T>>::serialize / deserialize
FormatSerialize(ty, v) ==
    IF SerTypes[ty].format = "Direct" THEN DirectSerialize(SerTypes[ty], v)
    ELSE BincodeSerialize(SerTypes[ty], v)

FormatDeserialize(ty, bs) ==
    IF SerTypes[ty].format = "Direct" THEN DirectDeserialize(SerTypes[ty], bs)
    ELSE BincodeDeserialize(SerTypes[ty], bs)

\* The tags a stored value of type ty may carry: the current one, a later
\* version, an earlier version, another id.
Tags(ty) ==
    { [id |-> SerTypes[ty].id, version |-> SerTypes[ty].version],
      [id |-> SerTypes[ty].id, version |-> SerTypes[ty].version + 1],
      [id |-> SerTypes[ty].id, version |-> 0],
      [id |-> "other", version |-> 0] }

CurrentTag(ty) == [id |-> SerTypes[ty].id, version |-> SerTypes[ty].version]

can_migrate_from_any(ty, id, version) == TRUE
\* DbSerializable::can_migrate_from: false by default; the user type
\* accepts its own version 0.
can_migrate_from(ty, id, version) ==
    IF ty = "UserV1" THEN id = "user" /\ version = 0 ELSE FALSE

\* DbSerializable::do_migration: fails by default; the user type reads the
\* two bytes its version 0 stored.
do_migration(ty, id, version, data) ==
    IF ty = "UserV1" /\ Len(data) = 2 THEN [ok |-> TRUE, val |-> data]
    ELSE [ok |-> FALSE, val |-> <<>>]

\* The bytes stored under a tag: the current format for the current tag,
\* the two raw bytes for version 0 of the user type.
StoredBytes(ty, tag, v) ==
    IF ty = "UserV1" /\ tag # CurrentTag(ty) THEN v ELSE FormatSerialize(ty, v)

\* Decoding a stored value tagged (id, version).
LoadStored(ty, tag, bs) ==
    IF tag = CurrentTag(ty)
    THEN [how |-> "direct", migrations |-> 0, res |-> FormatDeserialize(ty, bs)]
    ELSE IF can_migrate_from(ty, tag.id, tag.version)
    THEN [how |-> "migrated", migrations |-> 1,
          res |-> do_migration(ty, tag.id, tag.version, bs)]
    ELSE [how |-> "MigrationUnsupported", migrations |-> 0,
          res |-> [ok |-> FALSE, val |-> <<>>]]

dbvars == <<db, pool, hstate, connOps, txLive, txOps, task, rb, hist, used,
            stream>>

InitSer ==
    /\ InitConn /\ pool.max = max_size
    /\ \E ty \in SerTypeNames : \E v \in ValuesOf(ty) : \E tag \in Tags(ty) :
          ser = [phase |-> "input", ty |-> ty, val |-> v, tag |-> tag]
    /\ gen = GenIdle /\ term = TermIdle /\ cmds = CmdsIdle

\* Format::serialize of the value.
Serialize ==
    /\ ser.phase = "input"
    /\ ser' = [phase |-> "encoded", ty |-> ser.ty, val |-> ser.val,
               tag |-> ser.tag, bytes |-> FormatSerialize(ser.ty, ser.val)]
    /\ UNCHANGED <<dbvars, gen, term, cmds>>

\* Format::deserialize of the encoding.
Deserialize ==
    /\ ser.phase = "encoded"
    /\ ser' = [phase |-> "decoded", ty |-> ser.ty, val |-> ser.val,
               tag |-> ser.tag, bytes |-> ser.bytes,
               out |-> FormatDeserialize(ser.ty, ser.bytes)]
    /\ UNCHANGED <<dbvars, gen, term, cmds>>

\* The value is stored under its tag and read back.
Load ==
    /\ ser.phase = "encoded"
    /\ LET bs == StoredBytes(ser.ty, ser.tag, ser.val)
       IN  ser' = [phase |-> "loaded", ty |-> ser.ty, val |-> ser.val,
                   tag |-> ser.tag, bytes |-> bs,
                   out |-> LoadStored(ser.ty, ser.tag, bs)]
    /\ UNCHANGED <<dbvars, gen, term, cmds>>

NextSer == Serialize \/ Deserialize \/ Load

SpecSer == InitSer /\ [][NextSer]_vars

----------------------------------------------------------------------------
(* The items of a streaming query: the generator do_query_stream builds    *)
(* and the stream async_stream makes of it.  A query is its result set of  *)
(* K rows and the place where the engine or the decoder fails, if any:     *)
(* "prepare" (Connection::prepare), "bind" (the query closure), "step"     *)
(* (Rows::next called after j rows) or "decode" (from_row_with_columns on  *)
(* row j + 1).                                                             *)

MaxRows == 4

FailKinds == {"none", "prepare", "bind", "step", "decode"}

\* The queries considered: (K, fail, j).
Queries ==
    {q \in [K : 0..MaxRows, fail : FailKinds, j : 0..MaxRows] :
        CASE q.fail = "step" -> q.j <= q.K
          [] q.fail = "decode" -> q.j < q.K
          [] OTHER -> q.j = 0}

\* The loop `while let Some(row) = query.next()? { yield Ok(from_row(..)?) }`
\* after n rows were yielded, followed by `if let Err(e) = result { yield
\* Err(e) }`.
RECURSIVE generator_loop(_, _)
generator_loop(q, n) ==
    IF q.fail = "step" /\ n = q.j THEN <<"Err">>
    ELSE IF n = q.K THEN <<>>
    ELSE IF q.fail = "decode" /\ n = q.j THEN <<"Err">>
    ELSE <<"Ok">> \o generator_loop(q, n + 1)

\* What query_generator yields when resumed to completion.
query_generator(q) ==
    IF q.fail \in {"prepare", "bind"} THEN <<"Err">>
    ELSE generator_loop(q, 0)

\* The stream async_stream returns for a generator: its body is empty, so
\* it takes as many of the generator's items as async_stream_items says.
async_stream(g) == SubSeq(g, 1, async_stream_items(Len(g)))

InitGen ==
    /\ InitConn /\ pool.max = max_size
    /\ ser = SerIdle /\ term = TermIdle /\ cmds = CmdsIdle
    /\ \E q \in Queries : gen = [phase |-> "input", q |-> q]

\* do_query_stream returns the stream.
GenBuild ==
    /\ gen.phase = "input"
    /\ gen' = [phase |-> "live", q |-> gen.q,
               items |-> async_stream(query_generator(gen.q)), out |-> <<>>]
    /\ UNCHANGED <<dbvars, ser, term, cmds>>

\* The consumer polls the stream: the next item, or its end.
GenPoll ==
    /\ gen.phase = "live"
    /\ gen' = IF Len(gen.out) < Len(gen.items)
              THEN [gen EXCEPT !.out = Append(@, gen.items[Len(gen.out) + 1])]
              ELSE [gen EXCEPT !.phase = "ended"]
    /\ UNCHANGED <<dbvars, ser, term, cmds>>

NextGen == GenBuild \/ GenPoll

SpecGen == InitGen /\ [][NextGen]_vars

----------------------------------------------------------------------------
(* The terminal read loop: Terminal::start_terminal                        *)
(* (src/sylphie_core/src/interface/terminal.rs).                           *)

MaxReads == 4

Lines == {"help", "shutdown"}

\* What read_line_step(Some(100ms)) returns: Ok(Some(Input(line))),
\* Ok(Some(Eof)), Ok(Some(Signal(Quit))), Ok(Some(Signal(other))),
\* Ok(None) on a timeout, or Err.
ReadResults ==
    {[kind |-> "Input", line |-> l] : l \in Lines}
    \cup {[kind |-> k, line |-> ""] :
             k \in {"Eof", "Quit", "Signal", "None", "Err"}}

\* Whether the write! of the Eof and Quit arms and cancel_read_line
\* succeed.
IoResults == [write : BOOLEAN, cancel : BOOLEAN]

last_failed_after_read_keep(lf, res) == lf
\* if result.is_ok() { last_failed = false; }
last_failed_after_read(lf, res) ==
    IF res.kind # "Err" THEN FALSE ELSE lf

\* One iteration of the loop on the read result res.
terminal_iteration(t, res, io) ==
    LET lf == last_failed_after_read(t.last_failed, res)
        t1 == [t EXCEPT !.reads = Append(@, res), !.last_failed = lf]
        exit(u, why, ret) ==
            [u EXCEPT !.status = "exited", !.why = why, !.ret = ret]
        \* the check of is_shutdown that ends an iteration
        tail(u) ==
            IF u.shutdown
            THEN IF io.cancel THEN exit(u, "shutdown", "Ok")
                 ELSE exit(u, "cancel_error", "Err")
            ELSE u
    IN  CASE res.kind = "Input" ->
               tail([t1 EXCEPT !.dispatched = Append(@, res.line)])
          [] res.kind = "Eof" ->
               IF io.write THEN tail(t1) ELSE exit(t1, "write_error", "Err")
          [] res.kind = "Quit" ->
               IF io.write THEN exit(t1, "quit", "Ok")
               ELSE exit(t1, "write_error", "Err")
          [] res.kind = "Err" ->
               IF lf THEN exit(t1, "failed_twice", "Ok")
               ELSE tail([t1 EXCEPT !.last_failed = TRUE])
          [] OTHER -> tail(t1)

InitTerm ==
    /\ InitConn /\ pool.max = max_size
    /\ ser = SerIdle /\ gen = GenIdle /\ cmds = CmdsIdle
    /\ term = [status |-> "running", last_failed |-> FALSE, reads |-> <<>>,
               dispatched |-> <<>>, shutdown |-> FALSE, why |-> "none",
               ret |-> "none"]

\* Another thread sets the shared is_shutdown flag.
TermShutdown ==
    /\ term.status = "running" /\ ~term.shutdown
    /\ term' = [term EXCEPT !.shutdown = TRUE]
    /\ UNCHANGED <<dbvars, ser, gen, cmds>>

TermIterate(res, io) ==
    /\ term.status = "running" /\ Len(term.reads) < MaxReads
    /\ term' = terminal_iteration(term, res, io)
    /\ UNCHANGED <<dbvars, ser, gen, cmds>>

NextTerm ==
    \/ TermShutdown
    \/ \E res \in ReadResults, io \in IoResults : TermIterate(res, io)

SpecTerm == InitTerm /\ [][NextTerm]_vars

----------------------------------------------------------------------------
(* Command lookup: CommandSet::from_event and                              *)
(* CommandManager::lookup_command (src/sylphie_commands/src/manager.rs).   *)
(* A string is the sequence of its characters.  A Command is its module    *)
(* name, its name and the place it has in the list of registrations, which *)
(* tells the clones of one Command from those of another.                  *)

MaxCommands == 3

ModuleNames == {<<"a">>, <<"b", ".", "a">>, <<"B", ".", "a">>}

CommandNames == {<<"x">>, <<"Y">>}

\* The strings looked up: a name alone, group:name, and one with two ':'.
QueryGroups ==
    {<<>>, <<"a">>, <<"A">>, <<"b">>, <<"b", ".", "a">>, <<"B", ".", "A">>}

QueryNames == {<<"x">>, <<"X">>, <<"y">>}

LookupStrings ==
    QueryNames
    \cup {g \o <<":">> \o n : g \in QueryGroups, n \in QueryNames}
    \cup {<<"a", ":", "x", ":", "x">>}

\* Result<bool> of Command::can_access for each Command, in one context.
Contexts == [1..MaxCommands -> {"yes", "no", "err"}]

\* Command::full_name: the module name and the name, joined by ':'.
full_name(c) == c.module_name \o <<":">> \o c.name

\* u8::to_ascii_lowercase: 'A'..'Z' to 'a'..'z', anything else unchanged.
ascii_lower(ch) ==
    CASE ch = "A" -> "a"
      [] ch = "B" -> "b"
      [] ch = "X" -> "x"
      [] ch = "Y" -> "y"
      [] OTHER -> ch

to_ascii_lowercase_keep(str) == str
\* str::to_ascii_lowercase
to_ascii_lowercase(str) == [i \in 1..Len(str) |-> ascii_lower(str[i])]

\* str::split(':') collected: the pieces between the separators.
RECURSIVE split(_, _)
split(str, sep) ==
    IF \A i \in 1..Len(str) : str[i] # sep THEN <<str>>
    ELSE LET k == CHOOSE i \in 1..Len(str) :
                     str[i] = sep /\ \A j \in 1..(i - 1) : str[j] # sep
         IN  <<SubSeq(str, 1, k - 1)>> \o split(SubSeq(str, k + 1, Len(str)), sep)

\* The empty FxHashMap.
EmptyMap == [k \in {} |-> <<>>]

\* map.entry(key).or_insert(Vec::new()).push(v)
entry_push(map, key, v) ==
    [k \in DOMAIN map \cup {key} |->
        IF k = key
        THEN (IF key \in DOMAIN map THEN Append(map[key], v) ELSE <<v>>)
        ELSE map[k]]

\* from_event, first loop: a command whose lower-cased full name was seen
\* is skipped with a warning, the others are grouped by lower-cased name.
RECURSIVE commands_for_name(_, _, _)
commands_for_name(list, used_full_names, map) ==
    IF list = <<>> THEN map
    ELSE LET command == Head(list)
             lc_name == to_ascii_lowercase(full_name(command))
         IN  IF lc_name \in used_full_names
             THEN commands_for_name(Tail(list), used_full_names, map)
             ELSE commands_for_name(Tail(list),
                      used_full_names \cup {lc_name},
                      entry_push(map, to_ascii_lowercase(command.name), command))

\* from_event, `for (i, _) in mod_name.char_indices().filter(..== '.')`:
\* the variant goes under every mod_name[i+1..].
RECURSIVE prefix_loop(_, _, _, _)
prefix_loop(map, mod_name, i, variant) ==
    IF i > Len(mod_name) THEN map
    ELSE prefix_loop(
             IF mod_name[i] = "."
             THEN entry_push(map, SubSeq(mod_name, i + 1, Len(mod_name)), variant)
             ELSE map,
             mod_name, i + 1, variant)

\* from_event, second loop: the prefixes of the variants of one name.
RECURSIVE variants_map(_, _)
variants_map(variants, map) ==
    IF variants = <<>> THEN map
    ELSE LET variant == Head(variants)
             mod_name == to_ascii_lowercase(variant.module_name)
             m1 == entry_push(map, mod_name, variant)
             m2 == entry_push(m1, <<>>, variant)
         IN  variants_map(Tail(variants), prefix_loop(m2, mod_name, 1, variant))

\* CommandSet::from_event
from_event(commands) ==
    LET cfn == commands_for_name(commands, {}, EmptyMap)
    IN  [list |-> commands,
         by_name |-> [name \in DOMAIN cfn |-> variants_map(cfn[name], EmptyMap)]]

\* CommandManager::new: the null CommandSet.
NullSet == [list |-> <<>>, by_name |-> EmptyMap]

LookupResult(kind, found) == [kind |-> kind, commands |-> found]

\* lookup_command, `for command in x { if command.can_access(ctx).await? ..`
RECURSIVE access_loop(_, _, _)
access_loop(x, ctx, valid_commands) ==
    IF x = <<>> THEN
        IF Len(valid_commands) = 0 THEN LookupResult("NoneFound", <<>>)
        ELSE IF Len(valid_commands) = 1
             THEN LookupResult("Found", valid_commands)
        ELSE LookupResult("Ambigious", valid_commands)
    ELSE IF ctx[Head(x).id] = "err" THEN LookupResult("Err(can_access)", <<>>)
    ELSE access_loop(Tail(x), ctx,
             IF ctx[Head(x).id] = "yes" THEN Append(valid_commands, Head(x))
             ELSE valid_commands)

\* CommandManager::lookup_command
lookup_command(data, ctx, cmd) ==
    LET command == to_ascii_lowercase(cmd)
        parts == split(command, ":")
        set == IF data = <<>> THEN NullSet ELSE data[1]
    IN  IF Len(parts) > 2 THEN LookupResult("Err(CommandError)", <<>>)
        ELSE LET group == IF Len(parts) = 1 THEN <<>> ELSE parts[1]
                 name == parts[Len(parts)]
             IN  IF name \notin DOMAIN set.by_name
                 THEN LookupResult("NoneFound", <<>>)
                 ELSE IF group \notin DOMAIN set.by_name[name]
                 THEN LookupResult("NoneFound", <<>>)
                 ELSE access_loop(set.by_name[name][group], ctx, <<>>)

InitCmds ==
    /\ InitConn /\ pool.max = max_size
    /\ ser = SerIdle /\ gen = GenIdle /\ term = TermIdle
    /\ cmds = [phase |-> "run", event |-> <<>>, data |-> <<>>, last |-> <<>>]

\* A handler of RegisterCommandsEvent gets one more command to register.
RegisterCommand(m, n) ==
    /\ cmds.last = <<>> /\ Len(cmds.event) < MaxCommands
    /\ cmds' = [cmds EXCEPT
           !.event = Append(@, [module_name |-> m, name |-> n,
                                id |-> Len(cmds.event) + 1])]
    /\ UNCHANGED <<dbvars, ser, gen, term>>

\* CommandManager::reload
Reload ==
    /\ cmds.last = <<>>
    /\ cmds.data # <<from_event(cmds.event)>>
    /\ cmds' = [cmds EXCEPT !.data = <<from_event(cmds.event)>>]
    /\ UNCHANGED <<dbvars, ser, gen, term>>

\* One lookup_command call, the last thing observed; the context answers
\* for the commands that exist.
Lookup(ctx, cmd) ==
    /\ cmds.last = <<>>
    /\ \A i \in 1..MaxCommands : i > Len(cmds.event) => ctx[i] = "no"
    /\ cmds' = [cmds EXCEPT !.last =
           <<[command |-> cmd, ctx |-> ctx,
              result |-> lookup_command(cmds.data, ctx, cmd)]>>]
    /\ UNCHANGED <<dbvars, ser, gen, term>>

NextCmds ==
    \/ \E m \in ModuleNames, n \in CommandNames : RegisterCommand(m, n)
    \/ Reload
    \/ \E ctx \in Contexts, cmd \in LookupStrings : Lookup(ctx, cmd)

SpecCmds == InitCmds /\ [][NextCmds]_vars

----------------------------------------------------------------------------
(* Properties.                                                             *)

\* Caller h's checkout (PooledConnection) is alive: inside a DbOpsData or
\* inside the drop-time rollback task.
LiveCheckout(h) ==
    \/ \E i \in DOMAIN DataOf(h) : DataOf(h)[i].conn_handle # <<>>
    \/ rb[h] # <<>>

\* The Connections reachable from caller h's checkout and the values built
\* around it.
HeldBy(h) ==
    ( UNION { {DataOf(h)[i].conn} \cup
              {DataOf(h)[i].conn_handle[j] : j \in DOMAIN DataOf(h)[i].conn_handle}
              : i \in DOMAIN DataOf(h) }
      \cup (IF rb[h] # <<>> THEN {rb[h][1].conn, rb[h][1].conn_handle} ELSE {}) )
    \ {NoConn}

LiveCount == Cardinality({h \in Handles : LiveCheckout(h)})

\* C1: a transaction (of any kind) dropped without commit() or rollback():
\* once the drop-triggered ROLLBACK has completed, the row count of the
\* table it wrote equals the count taken at BEGIN.
C1_DroppedTxRolledBack ==
    \A h \in Handles :
        (hist[h].txEnd \in {"drop", "drop_poisoned"} /\ hist[h].rbDone)
            => db.committed[hist[h].conn] = hist[h].snap

C1_Witness ==
    \E h \in Handles :
        /\ hist[h].txEnd = "drop" /\ hist[h].rbDone
        /\ hist[h].txWrites > 0

\* C2: once commit() has returned Ok, the rows written inside the
\* transaction are committed (visible to any connection opened later), and
\* stay so whatever follows: the drop of the DbTransaction, the drop-time
\* worker, the release of the checkout.
C2_CommittedWritesStay ==
    \A h \in Handles :
        hist[h].txEnd = "commit_ok"
            => db.committed[hist[h].conn] = hist[h].snap + hist[h].txWrites

C2_Witness ==
    \E h, g \in Handles :
        /\ h # g
        /\ hist[h].txEnd = "commit_ok" /\ hist[h].txWrites > 0
        /\ hist[h].rbDone /\ hist[h].released /\ hstate[h] = "dropped"
        /\ hstate[g] = "live" /\ hist[g].conn > hist[h].conn

\* C3: over the lifetime of one transaction exactly one terminating
\* statement (COMMIT or ROLLBACK) is issued on its connection; stated as
\* its safety half: never more than one.
C3_OneTerminatingStatement ==
    \A p \in Phys : db.ncommit[p] + db.nrollback[p] <= 1

\* C4: after commit() or rollback() has returned Ok, the parent
\* DbConnection holds its DbOpsData again: its bridge is not empty and a
\* later call on it does not fail with the poisoned-bridge error.
C4_ReleasedToParent ==
    \A h \in Handles :
        (hist[h].txEnd \in {"commit_ok", "rollback_ok"} /\ hstate[h] = "live")
            => (connOps[h] # <<>> /\ hist[h].lastResult # "poisoned")

\* C5: a DbTransaction dropped with a poisoned bridge (the future of an
\* execute, commit or rollback on it was abandoned mid-await) still has a
\* ROLLBACK issued on its connection, and its destructor does not panic;
\* stated for the states in which the workers of that caller have finished.
C5_PoisonedDropRollsBack ==
    \A h \in Handles :
        ( /\ hist[h].txEnd \in {"drop_poisoned", "commit_abandoned",
                                "rollback_abandoned", "commit_poisoned",
                                "rollback_poisoned"}
          /\ task[h] = <<>> /\ rb[h] = <<>> )
            => db.nrollback[hist[h].conn] >= 1

\* C6: when a DbOpsData was dropped while is_in_transaction was set, its
\* checkout is released to the Pool only after a ROLLBACK has run on its
\* connection.
C6_RollbackBeforeRelease ==
    \A h \in Handles :
        (hist[h].dropInTxn /\ hist[h].released)
            => db.nrollback[hist[h].conn] >= 1

\* The bridge of h's DbConnection / DbTransaction is empty and no call of h
\* is in flight on it.
ConnPoisoned(h) ==
    /\ hstate[h] = "live" /\ connOps[h] = <<>>
    /\ ~(Busy(h) /\ task[h][1].tgt = "conn")

TxPoisoned(h) ==
    /\ txLive[h] = "active" /\ txOps[h] = <<>>
    /\ ~(Busy(h) /\ task[h][1].tgt = "tx")

Dispatched(h, tgt) ==
    /\ task'[h] # task[h]
    /\ task'[h] # <<>>
    /\ ~task'[h][1].orphan
    /\ task'[h][1].tgt = tgt

\* C7: poisoning is sticky: from a state in which a bridge is empty, no
\* step refills it, no step dispatches a call of that bridge to a worker,
\* and a call made on it returns the poisoned-bridge error.
C7_PoisoningSticky ==
    [][\A h \in Handles :
        /\ ConnPoisoned(h) =>
             /\ connOps'[h] = <<>>
             /\ ~Dispatched(h, "conn")
             /\ (txLive[h] # "active" /\ hist'[h].lastResult # hist[h].lastResult)
                    => hist'[h].lastResult = "poisoned"
        /\ TxPoisoned(h) =>
             /\ txOps'[h] = <<>>
             /\ ~Dispatched(h, "tx")
             /\ hist'[h].lastResult # hist[h].lastResult
                    => hist'[h].lastResult = "poisoned"]_vars

C7_Witness ==
    \E h \in Handles :
        /\ ConnPoisoned(h) /\ hist[h].abandonedConn
        /\ hist[h].lastResult = "poisoned"
        /\ task[h] = <<>>

\* C8: abandoning the future of run_blocking after the dispatch does not
\* retract the work: a dispatched operation leaves its worker only by
\* having run; the bridge stays empty; and every result the caller gets
\* afterwards is the poisoned-bridge error.
C8_AbandonDoesNotRetract ==
    \A h \in Handles :
        /\ task[h] = <<>> => hist[h].ran
        /\ (hist[h].abandonedConn /\ hstate[h] = "live") => connOps[h] = <<>>
        /\ (hist[h].abandonedTx /\ txLive[h] = "active") => txOps[h] = <<>>
        /\ (hist[h].abandonedConn \/ hist[h].abandonedTx)
              => hist[h].lastResult \in {"abandoned", "poisoned"}

C8_Witness ==
    \E h \in Handles :
        /\ hist[h].abandonedTx /\ task[h] = <<>> /\ hist[h].ran
        /\ hist[h].txWrites > 0
        /\ hist[h].lastResult = "poisoned"

\* C9: no two live checkouts reach the same Connection, and no idle entry
\* of the Pool holds a Connection a live checkout reaches.
C9_NoSharedConnection ==
    /\ \A h, g \in Handles :
          (h # g /\ LiveCheckout(h) /\ LiveCheckout(g))
              => HeldBy(h) \cap HeldBy(g) = {}
    /\ \A h \in Handles, i \in DOMAIN pool.idle :
          LiveCheckout(h) => pool.idle[i] \notin HeldBy(h)

C9_Witness ==
    \E h, g \in Handles :
        /\ h # g
        /\ LiveCheckout(h) /\ txLive[h] = "active" /\ HeldBy(h) # {}
        /\ LiveCheckout(g) /\ rb[g] # <<>> /\ HeldBy(g) # {}

\* C10: the live checkouts never outnumber the Pool's configured maximum,
\* and a Connection is opened only when no idle entry passes validation
\* and fewer than the maximum are checked out.
C10_PoolBound ==
    /\ [](LiveCount = pool.out /\ LiveCount <= pool.max)
    /\ [][db'.nconn > db.nconn
            => (PoolValidated(pool.idle) = <<>> /\ pool.out < pool.max)]_vars

C10_Witness ==
    \E h \in Handles :
        /\ hstate[h] = "none"
        /\ LiveCount = pool.max
        /\ ~PoolCanGet(pool)

\* C11: a connect() the Pool cannot satisfy waits instead of failing; every
\* release of a checkout (by the drop of a DbConnection, by a destructor on
\* a worker, by the drop-time rollback worker) frees room in the Pool for a
\* waiting request; and the request that is still waiting when the others
\* have been served is satisfied once the Pool has room for it.
C11_WaitingConnectSatisfied ==
    /\ [][\A h \in Handles :
            /\ (hstate[h] = "none" /\ ~PoolCanGet(pool))
                  => (hstate'[h] = "none" /\ hist'[h] = hist[h])
            /\ (hstate[h] = "none" /\ hstate'[h] = "none" /\ LiveCount' < LiveCount)
                  => PoolCanGet(pool')]_vars
    /\ \A h \in Handles :
          ( /\ hstate[h] = "none" /\ PoolCanGet(pool)
            /\ \A g \in Handles \ {h} : hstate[g] # "none" )
              ~> (hstate[h] = "live")

C11_Witness ==
    \E h, g \in Handles :
        /\ h # g /\ pool.max = 1
        /\ hstate[g] = "dropped" /\ hist[g].rbDone /\ ~LiveCheckout(g)
        /\ hstate[h] = "live" /\ hist[h].conn > hist[g].conn

\* C12: a DbConnection dropped outside a transaction with no statement in
\* flight (never abandoned, its last call answered Ok or none made): its
\* checkout is released holding the Connection and the Pool recycles it
\* instead of discarding it.
C12_CleanDropRecycles ==
    \A h \in Handles :
        ( /\ hstate[h] = "dropped" /\ txLive[h] = "none"
          /\ ~hist[h].abandonedConn
          /\ hist[h].lastResult \in {"none", "ok"} )
            => (hist[h].released /\ ~hist[h].discarded)

\* C13: what Database::connect returns wraps an open Connection: the
\* checkout it was built from was not empty, and until the caller's first
\* call has been answered its DbOpsData holds that Connection, in the bridge
\* unless the call is in flight.  An empty wrapper recycled into the Pool is
\* therefore never the one a connect hands out.
C13_ConnectWrapsLiveConnection ==
    \A h \in Handles :
        /\ hstate[h] # "none" => hist[h].conn # NoConn
        /\ ( /\ hstate[h] = "live" /\ hist[h].lastResult = "none"
              /\ stream[h].state = "none" )
              => /\ hist[h].conn \in db.open
                 /\ \E i \in DOMAIN DataOf(h) : DataOf(h)[i].conn = hist[h].conn
                 /\ ~Busy(h) => connOps[h] # <<>>

C13_Witness ==
    \E h, g \in Handles :
        /\ h # g /\ pool.max = 1
        /\ hstate[g] = "dropped" /\ hist[g].released /\ ~hist[g].discarded
        /\ hstate[h] = "live" /\ hist[h].lastResult = "none"
        /\ hist[h].conn > hist[g].conn /\ hist[h].conn \in db.open

\* C14: a streaming query polled to its end has yielded as many items as
\* its result set has rows.
C14_StreamYieldsAllRows ==
    \A h \in Handles :
        stream[h].state = "exhausted" => stream[h].yielded = stream[h].K

\* C15: after a streaming query has ended, by exhaustion or by being
\* dropped early, the DbOpsData it was made from holds its Connection
\* again.
C15_StreamRestoresConnection ==
    \A h \in Handles :
        stream[h].state \in {"exhausted", "abandoned"}
            => \A i \in DOMAIN DataOf(h) : DataOf(h)[i].conn # NoConn

\* C16: every failure of the drop-time ROLLBACK is passed to the error
\* hook exactly once, and the step in which the drop-time worker finishes
\* hands no result to the caller.
C16_RollbackFailureReported ==
    /\ [](\A h \in Handles : hist[h].reported = hist[h].rbFailed)
    /\ [][\A h \in Handles :
            (rb[h] # <<>> /\ rb'[h] = <<>>)
                => hist'[h].lastResult = hist[h].lastResult]_vars

C16_Witness ==
    \E h \in Handles :
        /\ hist[h].rbFailed = 1 /\ hist[h].reported = 1
        /\ hist[h].txEnd = "rollback_ok" /\ rb[h] = <<>>

\* C17: round trip: for every built-in format and every representative
\* value, deserialize(serialize(v)) is Ok(v); the direct format's encoding
\* of a byte buffer is the buffer, of a string its UTF-8 bytes, empty for
\* the empty ones; an 8-bit integer is encoded as its one byte, a wider 0
\* as the varint <<0>> and a wider -1 as the zig-zag varint <<1>>.
C17_RoundTrip ==
    /\ ser.phase = "decoded" => (ser.out.ok /\ ser.out.val = ser.val)
    /\ (ser.phase = "encoded" /\ SerTypes[ser.ty].kind = "bytes")
          => ser.bytes = ser.val
    /\ (ser.phase = "encoded" /\ ser.val = <<>>) => ser.bytes = <<>>
    /\ (ser.phase = "encoded" /\ SerTypes[ser.ty].width = 1)
          => ser.bytes = ser.val
    /\ (ser.phase = "encoded" /\ SerTypes[ser.ty].width > 1)
          => /\ ser.val = Zeros(SerTypes[ser.ty].width) => ser.bytes = <<0>>
             /\ (SerTypes[ser.ty].kind = "int"
                   /\ ser.val = Ones(SerTypes[ser.ty].width)) => ser.bytes = <<1>>

C17_Witness ==
    /\ ser.phase = "decoded" /\ ser.ty = "i64"
    /\ ser.val = Zeros(7) \o <<128>>
    /\ ser.bytes = <<253>> \o Ones(8)

\* C18: a stored value whose tag is the type's current (ID, SCHEMA_VERSION)
\* is decoded by the current format with no migration call; with any other
\* tag it is migrated by exactly one do_migration call when
\* can_migrate_from accepts the tag, and fails with MigrationUnsupported
\* when it does not; the built-in types and SimpleSerialize accept no tag.
C18_TaggedDecode ==
    ser.phase = "loaded" =>
        /\ ser.tag = CurrentTag(ser.ty)
              => /\ ser.out.how = "direct" /\ ser.out.migrations = 0
                 /\ ser.out.res = FormatDeserialize(ser.ty, ser.bytes)
                 /\ ser.out.res.ok /\ ser.out.res.val = ser.val
        /\ (ser.tag # CurrentTag(ser.ty) /\ ser.ty = "UserV1"
               /\ ser.tag = [id |-> "user", version |-> 0])
              => /\ ser.out.how = "migrated" /\ ser.out.migrations = 1
                 /\ ser.out.res.ok /\ ser.out.res.val = ser.val
        /\ (ser.tag # CurrentTag(ser.ty)
               /\ ~(ser.ty = "UserV1" /\ ser.tag = [id |-> "user", version |-> 0]))
              => /\ ser.out.how = "MigrationUnsupported"
                 /\ ser.out.migrations = 0 /\ ~ser.out.res.ok

C18_Witness ==
    /\ ser.phase = "loaded" /\ ser.ty = "SimpleU32"
    /\ ser.tag = [id |-> "simple_serialize", version |-> 1]
    /\ ser.out.how = "MigrationUnsupported"

\* C19: a run_blocking call awaited to completion, whose operation returned
\* Ok or an error, has put the value back into the bridge: after an execute
\* the bridge it was called on holds the DbOpsData again; after a refused
\* BEGIN the DbConnection's bridge does; after a successful BEGIN the value
\* was there for transaction_with_type to move into the DbTransaction; and
\* after COMMIT or ROLLBACK it was there for the DbTransaction's
\* destructor, which hands it to the drop-time worker.
C19_RunBlockingReinserts ==
    [][\A h \in Handles :
        (Busy(h) /\ task'[h] = <<>> /\ hist'[h].lastResult \in {"ok", "err"})
          => LET t == task[h][1]
             IN  /\ (t.op = "execute" /\ t.tgt = "conn") => connOps'[h] = t.data
                 /\ (t.op = "execute" /\ t.tgt = "tx") => txOps'[h] = t.data
                 /\ (t.op = "begin" /\ hist'[h].lastResult = "err")
                       => (connOps'[h] # <<>> /\ txLive'[h] # "active")
                 /\ (t.op = "begin" /\ hist'[h].lastResult = "ok")
                       => (txOps'[h] # <<>> /\ txLive'[h] = "active")
                 /\ t.op \in {"commit", "rollback"} => rb'[h] # <<>>]_vars

C19_Witness ==
    \E h \in Handles :
        /\ hstate[h] = "live" /\ txLive[h] = "none" /\ task[h] = <<>>
        /\ hist[h].lastResult = "err" /\ connOps[h] # <<>>
        /\ connOps[h][1].is_begin_transaction

\* The places that hold Connection p: an idle entry of the Pool, the conn
\* bridge or the checkout of a DbOpsData (in a handle's bridge or on a
\* worker), the drop-time rollback task, a live generator, the return cell.
Holders(p) ==
    {<<"idle", 0, i>> : i \in {j \in DOMAIN pool.idle : pool.idle[j] = p}}
    \cup UNION { {<<"conn", h, i>> :
                    i \in {j \in DOMAIN DataOf(h) : DataOf(h)[j].conn = p}}
                 \cup {<<"checkout", h, i>> :
                    i \in {j \in DOMAIN DataOf(h) :
                              DataOf(h)[j].conn_handle = <<p>>}}
                 \cup (IF rb[h] # <<>> /\ rb[h][1].conn = p
                       THEN {<<"rollback conn", h, 0>>} ELSE {})
                 \cup (IF rb[h] # <<>> /\ rb[h][1].conn_handle = p
                       THEN {<<"rollback checkout", h, 0>>} ELSE {})
                 \cup (IF stream[h].state = "live" /\ stream[h].gen = p
                       THEN {<<"generator", h, 0>>} ELSE {})
                 \cup (IF stream[h].cell = <<p>>
                       THEN {<<"cell", h, 0>>} ELSE {})
                 : h \in Handles }

\* C20: every open Connection is held in exactly one place, and a closed
\* one in none.
C20_OneHolder ==
    \A p \in Phys :
        Cardinality(Holders(p)) = IF p \in db.open THEN 1 ELSE 0

C20_Witness ==
    \E h, g \in Handles :
        /\ stream[h].state = "live" /\ stream[h].gen \in db.open
        /\ rb[g] # <<>> /\ rb[g][1].conn \in db.open
        /\ stream[h].gen # rb[g][1].conn

\* C21: for every DbOpsData, in a bridge, on a worker before its operation
\* runs, or between the two steps of its transaction's destructor:
\* is_in_transaction is set exactly when a BEGIN has succeeded on the
\* Connection it was built around and no COMMIT or ROLLBACK, explicit or
\* drop-triggered, has completed on it since.
C21_InTransactionFlag ==
    \A h \in Handles : \A i \in DOMAIN DataOf(h) :
        DataOf(h)[i].is_in_transaction
            <=> (hist[h].conn # NoConn /\ db.tx[hist[h].conn] = "open")

\* The caller has a BEGIN, COMMIT or ROLLBACK in flight: dispatched to a
\* worker and not yet run (its future awaited or abandoned), or spawned by
\* rollback_in_drop and not yet run.
StatementInFlight(h) ==
    \/ rb[h] # <<>>
    \/ task[h] # <<>> /\ task[h][1].op \in {"begin", "commit", "rollback"}

\* C22: while a BEGIN, COMMIT or ROLLBACK is in flight on a caller's
\* connection its checkout has not been released to the Pool: the checkout
\* is still live, and no idle entry of the Pool holds that connection.
C22_NoReleaseInFlight ==
    \A h \in Handles :
        StatementInFlight(h)
            => /\ ~hist[h].released
               /\ LiveCheckout(h)
               /\ \A i \in DOMAIN pool.idle : pool.idle[i] # hist[h].conn

C22_Witness ==
    \E h \in Handles :
        /\ hist[h].txEnd = "commit_abandoned" /\ hist[h].ran
        /\ ~StatementInFlight(h) /\ hist[h].released

\* C23: a streaming query gives the Connection back exactly once: when the
\* stream has ended, by exhaustion or by early abandonment, and the
\* DbOpsData it was made from still exists, exactly one DbOpsData of the
\* caller holds the caller's Connection and the shared cell no longer
\* does.
C23_RestoredExactlyOnce ==
    \A h \in Handles :
        (stream[h].state \in {"exhausted", "abandoned"} /\ DataOf(h) # <<>>)
            => /\ Cardinality({i \in DOMAIN DataOf(h) :
                                 DataOf(h)[i].conn = hist[h].conn}) = 1
               /\ stream[h].cell = <<>>

\* C24: has_broken reports "not broken" for a wrapper that holds a
\* Connection (the wrapper every connect() hands out is one) and "broken"
\* for the empty wrapper, so that a released empty wrapper never becomes
\* an idle entry of the Pool.
C24_HasBrokenSense ==
    /\ \A h \in Handles : hstate[h] # "none" => ~has_broken(hist[h].conn)
    /\ \A i \in DOMAIN pool.idle : pool.idle[i] # NoConn

\* C25: a BEGIN dispatched for a kind carries the statement of that kind;
\* a BEGIN that succeeded leaves is_in_transaction set in the DbOpsData of
\* the DbTransaction; begin_transaction on a DbOpsData that is in a
\* transaction, and commit_transaction and rollback_transaction on one
\* that is not, abort without a statement reaching the engine; and no
\* operation that the callers dispatch is one that aborts.
C25_BeginMatchesKind ==
    \A h \in Handles :
        /\ (task[h] # <<>> /\ task[h][1].op = "begin")
              => BeginSql(task[h][1].kind) =
                    CASE task[h][1].kind = "Deferred" -> "BEGIN DEFERRED TRANSACTION;"
                      [] task[h][1].kind = "Immediate" -> "BEGIN IMMEDIATE TRANSACTION;"
                      [] task[h][1].kind = "Exclusive" -> "BEGIN EXCLUSIVE TRANSACTION;"
        /\ (txLive[h] = "active" /\ txOps[h] # <<>>)
              => /\ txOps[h][1].is_in_transaction
                 /\ stream[h].state = "none"
                       => db.tx[txOps[h][1].conn] = "open"
        /\ \A i \in DOMAIN DataOf(h) :
              LET o == DataOf(h)[i]
              IN  IF o.is_in_transaction
                  THEN \A t \in TransactionType :
                          begin_transaction(o, db, t, TRUE)
                              = [o |-> o, db |-> db, res |-> "panic"]
                  ELSE /\ commit_transaction(o, db, TRUE)
                              = [o |-> o, db |-> db, res |-> "panic"]
                       /\ rollback_transaction(o, db)
                              = [o |-> o, db |-> db, res |-> "panic"]
        /\ task[h] # <<>>
              => \A ok \in BOOLEAN : RunFunc(task[h][1], db, ok).res # "panic"

C25_Witness ==
    \E h, g \in Handles :
        /\ h # g
        /\ task[h] # <<>> /\ task[h][1].op = "begin"
        /\ task[h][1].kind = "Immediate"
        /\ task[h][1].data[1].is_begin_transaction
        /\ txLive[g] = "active" /\ txOps[g] # <<>>
        /\ task[g] = <<>> /\ hist[g].txWrites > 0

\* C26: no destructor faults: no drop of a DbTransaction, a DbConnection
\* or a DbOpsData unwraps an absent checkout or an empty bridge.
C26_NoDestructorFault ==
    \A h \in Handles : ~hist[h].panicked

\* C27: the phase flags is_begin_transaction and is_begin_commit are false
\* in every DbOpsData on which no statement is in flight, that is, in
\* every DbOpsData that sits in the bridge of a DbConnection or of a
\* DbTransaction; in particular after a BEGIN that failed.
C27_PhaseFlagsRestored ==
    \A h \in Handles :
        /\ connOps[h] # <<>>
              => (~connOps[h][1].is_begin_transaction
                    /\ ~connOps[h][1].is_begin_commit)
        /\ txOps[h] # <<>>
              => (~txOps[h][1].is_begin_transaction
                    /\ ~txOps[h][1].is_begin_commit)

\* C28: when the drop-time ROLLBACK fails the checkout is released with an
\* empty wrapper and the Connection is closed by the worker; when it
\* succeeds the checkout is released holding the Connection; and no idle
\* entry of the Pool holds a Connection with an open transaction.
C28_FailedRollbackNotRecycled ==
    /\ [][\A h \in Handles :
            (rb[h] # <<>> /\ rb'[h] = <<>>)
                => IF hist'[h].rbFailed > hist[h].rbFailed
                   THEN /\ pool' = PoolRelease(pool, NoConn)
                        /\ rb[h][1].conn \notin db'.open
                   ELSE rb[h][1].conn # NoConn
                            => pool' = PoolRelease(pool, rb[h][1].conn)]_vars
    /\ [](\A i \in DOMAIN pool.idle :
             pool.idle[i] # NoConn => db.tx[pool.idle[i]] = "none")

C28_Witness ==
    \E h, g \in Handles :
        /\ hist[h].txEnd = "commit_ok" /\ hist[h].rbFailed = 1 /\ rb[h] = <<>>
        /\ hist[h].conn \notin db.open
        /\ hist[g].txEnd = "drop" /\ hist[g].rbDone /\ hist[g].rbFailed = 0
        /\ hist[g].released

\* C29: a streaming query that fails after j rows were yielded has
\* produced, when it has ended, exactly j Ok items followed by exactly one
\* Err item.
C29_ErrorsInBand ==
    (gen.phase = "ended" /\ gen.q.fail # "none")
        => gen.out = [i \in 1..gen.q.j |-> "Ok"] \o <<"Err">>

\* The lines of the Input results among the reads, in the order read.
RECURSIVE InputLines(_)
InputLines(rs) ==
    IF rs = <<>> THEN <<>>
    ELSE (IF Head(rs).kind = "Input" THEN <<Head(rs).line>> ELSE <<>>)
         \o InputLines(Tail(rs))

LastRead == term.reads[Len(term.reads)]

\* C30: the terminal loop exits for read errors only when the last two
\* reads both failed; while it runs, last_failed says whether the last
\* read failed, so one failed read is tolerated and any successful read,
\* a timeout included, clears it; it does not go on after a Quit signal;
\* an iteration that starts with the shutdown flag set is the last one;
\* and the lines dispatched are the Input lines in the order read.
C30_TerminalLoop ==
    /\ [](term.why = "failed_twice"
            => /\ Len(term.reads) >= 2
               /\ LastRead.kind = "Err"
               /\ term.reads[Len(term.reads) - 1].kind = "Err")
    /\ [](term.status = "running"
            => /\ term.last_failed
                    = (term.reads # <<>> /\ LastRead.kind = "Err")
               /\ term.reads # <<>> => LastRead.kind # "Quit"
               /\ Len(term.reads) >= 2
                    => ~(LastRead.kind = "Err"
                         /\ term.reads[Len(term.reads) - 1].kind = "Err"))
    /\ [](term.why = "quit" => LastRead.kind = "Quit")
    /\ [](term.why = "shutdown" => term.shutdown)
    /\ [](term.dispatched = InputLines(term.reads))
    /\ [][(term.shutdown /\ term'.reads # term.reads)
            => term'.status = "exited"]_vars

C30_Witness ==
    /\ term.status = "exited" /\ term.why = "failed_twice"
    /\ Len(term.reads) = 4
    /\ term.reads[1].kind = "Err" /\ term.reads[2].kind = "Input"
    /\ term.dispatched = <<"help">>

\* Two characters that differ at most in case.
SameLetter(c, d) ==
    \/ c = d
    \/ {c, d} \in {{"a", "A"}, {"b", "B"}, {"x", "X"}, {"y", "Y"}}

EqIgnoreCase(str, t) ==
    /\ Len(str) = Len(t)
    /\ \A i \in 1..Len(str) : SameLetter(str[i], t[i])

Colons(str) == {i \in 1..Len(str) : str[i] = ":"}

\* The commands the CommandManager was loaded with.
LoadedList == IF cmds.data = <<>> THEN <<>> ELSE cmds.data[1].list

\* The places of the commands that are the first registered with their
\* full name, case ignored.
FirstRegistered ==
    {i \in 1..Len(LoadedList) :
        \A j \in 1..(i - 1) :
            ~EqIgnoreCase(full_name(LoadedList[j]), full_name(LoadedList[i]))}

\* The prefix is the module name or what follows one of its dots.
PrefixOf(g, m) ==
    \/ EqIgnoreCase(g, m)
    \/ \E k \in 1..Len(m) :
          m[k] = "." /\ EqIgnoreCase(g, SubSeq(m, k + 1, Len(m)))

\* The first-registered commands a looked-up string with at most one ':'
\* names: the name is what follows the ':', the prefix what precedes it; no
\* prefix, or an empty one, matches every module.
Matching(str) ==
    LET k == IF Colons(str) = {} THEN 0 ELSE CHOOSE i \in Colons(str) : TRUE
        g == SubSeq(str, 1, k - 1)
        n == SubSeq(str, k + 1, Len(str))
    IN  {i \in FirstRegistered :
            /\ EqIgnoreCase(LoadedList[i].name, n)
            /\ g # <<>> => PrefixOf(g, LoadedList[i].module_name)}

====
